---- MODULE Spec2Model ----
(***************************************************************************)
(* whatsapp_bulk_sender.py: main(), read_phone_numbers() and the           *)
(* WhatsAppBulkSender class, as a state machine.                           *)
(*                                                                         *)
(* A run starts either in main() (entry = "main": the recipient file is    *)
(* read and filtered, then the driver is set up) or in a direct call of    *)
(* WhatsAppBulkSender.send_bulk_messages on a sender whose driver is       *)
(* already up (entry = "call": the list is passed as is, blank entries     *)
(* included).  Each Selenium step that can raise is a nondeterministic     *)
(* choice over its outcomes, KeyboardInterrupt among them.                 *)
(***************************************************************************)
EXTENDS Integers, Sequences, FiniteSets, Bags, TLC

VARIABLES
    pc,             \* position in the program
    entry,          \* "main" or "call"
    fileState,      \* the recipient file: "missing", "unreadable", "ok" ("none" for a direct call)
    fileLines,      \* the lines of the recipient file
    phone_numbers,  \* the list read by main / passed to send_bulk_messages
    i,              \* enumerate index of send_bulk_messages (1-based; 0 before the loop)
    phone_number,   \* the loop's stripped phone_number
    ret,            \* send_message's return value (the local `success`)
    results,        \* self.results: [success |-> list, failed |-> list]
    driver,         \* self.driver: "None" or "Chrome"
    pending,        \* exception in flight towards main's finally: "none", "SystemExit"
    exitStatus,     \* process exit status, -1 while running
    trace,          \* history of the calls made: setup_driver, open_whatsapp_web, send_message, delay, summary, interrupted, quit
    raised,         \* history: recipients whose delivery raised an Exception
    sigint,         \* history: first KeyboardInterrupt raised during the dispatch loop
    initFailed      \* history: setup_driver raised or open_whatsapp_web failed

vars == <<pc, entry, fileState, fileLines, phone_numbers, i, phone_number, ret,
          results, driver, pending, exitStatus, trace, raised, sigint, initFailed>>

(* ------------------------------ bounds --------------------------------- *)

MaxLines == 3

(* ------------------------------ inputs --------------------------------- *)

\* A line is a sequence of characters; " " stands for any whitespace.
Entries == { <<>>, <<" ">>, <<"a">>, <<" ", "a", " ">>, <<"b">> }

Lists == UNION { [1..n -> Entries] : n \in 0..MaxLines }

(* ------------------------------ helpers -------------------------------- *)

RECURSIVE LStrip(_)
LStrip(s) == IF s # <<>> /\ Head(s) = " " THEN LStrip(Tail(s)) ELSE s

RECURSIVE RStrip(_)
RStrip(s) == IF s # <<>> /\ s[Len(s)] = " " THEN RStrip(SubSeq(s, 1, Len(s) - 1)) ELSE s

\* str.strip()
Strip(s) == RStrip(LStrip(s))

RECURSIVE StripNonBlank(_)
\* [line.strip() for line in f if line.strip()]
StripNonBlank(lines) ==
    IF lines = <<>> THEN <<>>
    ELSE IF Strip(Head(lines)) # <<>>
         THEN <<Strip(Head(lines))>> \o StripNonBlank(Tail(lines))
         ELSE StripNonBlank(Tail(lines))

Event(op, arg) == [op |-> op, arg |-> arg]

Log(op, arg) == Append(trace, Event(op, arg))

IsOp(op) == LET T(e) == e.op = op IN SelectSeq(trace, T)

\* the arguments of the send_message invocations, in order
Calls == LET s == IsOp("send_message") IN [k \in 1..Len(s) |-> s[k].arg]

Count(op) == Len(IsOp(op))

Occurs(seq, r) == Cardinality({k \in 1..Len(seq) : seq[k] = r})

Range(seq) == {seq[k] : k \in 1..Len(seq)}

Recorded == results.success \o results.failed

\* A KeyboardInterrupt that no handler below main catches: main's handler
\* takes it; a direct caller of send_bulk_messages sees it propagate.
Propagate == IF entry = "main" THEN "main_kbint" ELSE "propagated"

MarkInterrupt ==
    IF sigint.seen THEN sigint
    ELSE [seen |-> TRUE, results |-> results, calls |-> Len(Calls)]

NoInterrupt == [seen |-> FALSE, results |-> [success |-> <<>>, failed |-> <<>>], calls |-> 0]

(* ------------------------------- Init ---------------------------------- *)

Init ==
    /\ entry \in {"main", "call"}
    /\ IF entry = "main"
       THEN /\ pc = "main_start"
            /\ fileState \in {"missing", "unreadable", "ok"}
            /\ fileLines \in Lists
            /\ fileState # "ok" => fileLines = <<>>
            /\ phone_numbers = <<>>
            /\ driver = "None"
       ELSE /\ pc = "bulk_start"
            /\ fileState = "none"
            /\ fileLines = <<>>
            /\ phone_numbers \in Lists
            /\ driver = "Chrome"
    /\ i = 0
    /\ phone_number = <<>>
    /\ ret = FALSE
    /\ results = [success |-> <<>>, failed |-> <<>>]
    /\ pending = "none"
    /\ exitStatus = -1
    /\ trace = <<>>
    /\ raised = <<>>
    /\ sigint = NoInterrupt
    /\ initFailed = FALSE

(* ------------------------------- main ---------------------------------- *)

\* sys.exit(1) outside main's try block
ExitNow(status) ==
    /\ pc' = "exited"
    /\ exitStatus' = status

\* main: Path(args.numbers).exists()
MainCheckExists ==
    /\ pc = "main_start"
    /\ IF fileState = "missing"
       THEN ExitNow(1)
       ELSE pc' = "read" /\ UNCHANGED exitStatus
    /\ UNCHANGED <<entry, fileState, fileLines, phone_numbers, i, phone_number, ret,
                   results, driver, pending, trace, raised, sigint, initFailed>>

\* read_phone_numbers
ReadPhoneNumbers ==
    /\ pc = "read"
    /\ IF fileState = "unreadable"
       THEN ExitNow(1) /\ UNCHANGED phone_numbers
       ELSE /\ phone_numbers' = StripNonBlank(fileLines)
            /\ pc' = "check_empty"
            /\ UNCHANGED exitStatus
    /\ UNCHANGED <<entry, fileState, fileLines, i, phone_number, ret,
                   results, driver, pending, trace, raised, sigint, initFailed>>

\* Faulty variant of MainCheckEmpty: the emptiness check is missing.
MainCheckEmpty_NoCheck ==
    /\ pc = "check_empty"
    /\ pc' = "setup_driver"
    /\ results' = [success |-> <<>>, failed |-> <<>>]
    /\ driver' = "None"
    /\ UNCHANGED <<entry, fileState, fileLines, phone_numbers, i, phone_number, ret,
                   pending, exitStatus, trace, raised, sigint, initFailed>>

\* main: if not phone_numbers: sys.exit(1); sender = WhatsAppBulkSender(...)
MainCheckEmpty ==
    /\ pc = "check_empty"
    /\ IF phone_numbers = <<>>
       THEN ExitNow(1) /\ UNCHANGED <<results, driver>>
       ELSE /\ pc' = "setup_driver"
            /\ results' = [success |-> <<>>, failed |-> <<>>]
            /\ driver' = "None"
            /\ UNCHANGED exitStatus
    /\ UNCHANGED <<entry, fileState, fileLines, phone_numbers, i, phone_number, ret,
                   pending, trace, raised, sigint, initFailed>>

\* setup_driver: webdriver.Chrome may raise before self.driver is assigned,
\* execute_script after it.
SetupDriver ==
    /\ pc = "setup_driver"
    /\ trace' = Log("setup_driver", <<>>)
    /\ \E outcome \in {"ok", "raise_before", "raise_after", "interrupt_before", "interrupt_after"} :
         /\ driver' = IF outcome \in {"raise_before", "interrupt_before"} THEN "None" ELSE "Chrome"
         /\ pc' = CASE outcome = "ok" -> "open"
                    [] outcome \in {"raise_before", "raise_after"} -> "main_except"
                    [] OTHER -> "main_kbint"
         /\ initFailed' = (outcome \in {"raise_before", "raise_after"})
    /\ UNCHANGED <<entry, fileState, fileLines, phone_numbers, i, phone_number, ret,
                   results, pending, exitStatus, raised, sigint>>

\* open_whatsapp_web: True, or False on TimeoutException; anything else propagates
OpenWhatsAppWeb ==
    /\ pc = "open"
    /\ trace' = Log("open_whatsapp_web", <<>>)
    /\ \E outcome \in {"logged_in", "timeout", "raise", "interrupt"} :
         /\ pc' = CASE outcome = "logged_in" -> "bulk_start"
                    [] outcome = "timeout" -> "login_failed"
                    [] outcome = "raise" -> "main_except"
                    [] OTHER -> "main_kbint"
         /\ initFailed' = (outcome \in {"timeout", "raise"})
    /\ UNCHANGED <<entry, fileState, fileLines, phone_numbers, i, phone_number, ret,
                   results, driver, pending, exitStatus, raised, sigint>>

\* cleanup: if self.driver: self.driver.quit()
CleanupTrace(t) == IF driver # "None" THEN Append(t, Event("quit", <<>>)) ELSE t

\* main: login failed: sender.cleanup(); sys.exit(1) inside the try block
MainLoginFailed ==
    /\ pc = "login_failed"
    /\ trace' = CleanupTrace(trace)
    /\ pending' = "SystemExit"
    /\ pc' = "finally"
    /\ UNCHANGED <<entry, fileState, fileLines, phone_numbers, i, phone_number, ret,
                   results, driver, exitStatus, raised, sigint, initFailed>>

\* Faulty variant of MainKeyboardInterrupt: the handler also prints the summary.
MainKeyboardInterrupt_Summary ==
    /\ pc = "main_kbint"
    /\ trace' = Append(Log("interrupted", <<>>), Event("summary", <<>>))
    /\ pc' = "finally"
    /\ UNCHANGED <<entry, fileState, fileLines, phone_numbers, i, phone_number, ret,
                   results, driver, pending, exitStatus, raised, sigint, initFailed>>

\* main: except KeyboardInterrupt
MainKeyboardInterrupt ==
    /\ pc = "main_kbint"
    /\ trace' = Log("interrupted", <<>>)
    /\ pc' = "finally"
    /\ UNCHANGED <<entry, fileState, fileLines, phone_numbers, i, phone_number, ret,
                   results, driver, pending, exitStatus, raised, sigint, initFailed>>

\* main: except Exception: print, traceback
MainException ==
    /\ pc = "main_except"
    /\ pc' = "finally"
    /\ UNCHANGED <<entry, fileState, fileLines, phone_numbers, i, phone_number, ret,
                   results, driver, pending, exitStatus, trace, raised, sigint, initFailed>>

\* main: finally: sender.cleanup(); then the process ends
MainFinally ==
    /\ pc = "finally"
    /\ trace' = CleanupTrace(trace)
    /\ pc' = "exited"
    /\ exitStatus' = IF pending = "SystemExit" THEN 1 ELSE 0
    /\ UNCHANGED <<entry, fileState, fileLines, phone_numbers, i, phone_number, ret,
                   results, driver, pending, raised, sigint, initFailed>>

(* ------------------------- send_bulk_messages -------------------------- *)

\* total = len(phone_numbers); the two prints
SendBulkStart ==
    /\ pc = "bulk_start"
    /\ i' = 0
    /\ pc' = "loop"
    /\ UNCHANGED <<entry, fileState, fileLines, phone_numbers, phone_number, ret,
                   results, driver, pending, exitStatus, trace, raised, sigint, initFailed>>

\* for-loop head: the entry is blank after strip(): continue
LoopSkipBlank ==
    /\ pc = "loop"
    /\ i < Len(phone_numbers)
    /\ Strip(phone_numbers[i + 1]) = <<>>
    /\ i' = i + 1
    /\ phone_number' = <<>>
    /\ UNCHANGED <<pc, entry, fileState, fileLines, phone_numbers, ret,
                   results, driver, pending, exitStatus, trace, raised, sigint, initFailed>>

\* for-loop head: success = self.send_message(phone_number, message)
LoopAttempt ==
    /\ pc = "loop"
    /\ i < Len(phone_numbers)
    /\ Strip(phone_numbers[i + 1]) # <<>>
    /\ i' = i + 1
    /\ phone_number' = Strip(phone_numbers[i + 1])
    /\ trace' = Log("send_message", Strip(phone_numbers[i + 1]))
    /\ pc' = "search"
    /\ UNCHANGED <<entry, fileState, fileLines, phone_numbers, ret,
                   results, driver, pending, exitStatus, raised, sigint, initFailed>>

\* the list is exhausted
LoopExit ==
    /\ pc = "loop"
    /\ i = Len(phone_numbers)
    /\ pc' = "summary"
    /\ UNCHANGED <<entry, fileState, fileLines, phone_numbers, i, phone_number, ret,
                   results, driver, pending, exitStatus, trace, raised, sigint, initFailed>>

\* search_contact up to the message-box check
SearchContact ==
    /\ pc = "search"
    /\ \E outcome \in {"found", "no_chat", "timeout", "error", "interrupt"} :
         /\ pc' = CASE outcome = "found" -> "msgbox"
                    [] outcome = "no_chat" -> "search_clear"
                    [] outcome \in {"timeout", "error"} -> "not_found"
                    [] OTHER -> Propagate
         /\ raised' = IF outcome \in {"timeout", "error"}
                      THEN Append(raised, phone_number) ELSE raised
         /\ sigint' = IF outcome = "interrupt" THEN MarkInterrupt ELSE sigint
    /\ UNCHANGED <<entry, fileState, fileLines, phone_numbers, i, phone_number, ret,
                   results, driver, pending, exitStatus, trace, initFailed>>

\* search_contact: except NoSuchElementException: try: clear, sleep, ESCAPE
\* except: pass; return False.  The bare except takes every exception,
\* KeyboardInterrupt included.
SearchContactClear ==
    /\ pc = "search_clear"
    /\ \E outcome \in {"ok", "error", "interrupt"} :
         /\ pc' = "not_found"
         /\ sigint' = IF outcome = "interrupt" THEN MarkInterrupt ELSE sigint
    /\ UNCHANGED <<entry, fileState, fileLines, phone_numbers, i, phone_number, ret,
                   results, driver, pending, exitStatus, trace, raised, initFailed>>

\* send_message: if not self.search_contact(...): return False
SendMessageNotFound ==
    /\ pc = "not_found"
    /\ ret' = FALSE
    /\ pc' = "record"
    /\ UNCHANGED <<entry, fileState, fileLines, phone_numbers, i, phone_number,
                   results, driver, pending, exitStatus, trace, raised, sigint, initFailed>>

\* send_message: locate the message box (data-tab 10, then 1, then role=textbox)
SendMessageFindBox ==
    /\ pc = "msgbox"
    /\ \E outcome \in {"found", "no_element", "interrupt"} :
         /\ pc' = CASE outcome = "found" -> "typing"
                    [] outcome = "no_element" -> "sm_except"
                    [] OTHER -> Propagate
         /\ raised' = IF outcome = "no_element" THEN Append(raised, phone_number) ELSE raised
         /\ sigint' = IF outcome = "interrupt" THEN MarkInterrupt ELSE sigint
    /\ UNCHANGED <<entry, fileState, fileLines, phone_numbers, i, phone_number, ret,
                   results, driver, pending, exitStatus, trace, initFailed>>

\* send_message: click, human_type, RETURN, return True
SendMessageType ==
    /\ pc = "typing"
    /\ \E outcome \in {"sent", "timeout", "error", "interrupt"} :
         /\ pc' = CASE outcome = "sent" -> "record"
                    [] outcome \in {"timeout", "error"} -> "sm_except"
                    [] OTHER -> Propagate
         /\ ret' = IF outcome = "sent" THEN TRUE ELSE ret
         /\ raised' = IF outcome \in {"timeout", "error"}
                      THEN Append(raised, phone_number) ELSE raised
         /\ sigint' = IF outcome = "interrupt" THEN MarkInterrupt ELSE sigint
    /\ UNCHANGED <<entry, fileState, fileLines, phone_numbers, i, phone_number,
                   results, driver, pending, exitStatus, trace, initFailed>>

\* Faulty variant of SendMessageExcept: the handler re-raises.
SendMessageExcept_Reraise ==
    /\ pc = "sm_except"
    /\ pc' = IF entry = "main" THEN "main_except" ELSE "propagated"
    /\ UNCHANGED <<entry, fileState, fileLines, phone_numbers, i, phone_number, ret,
                   results, driver, pending, exitStatus, trace, raised, sigint, initFailed>>

\* send_message: except TimeoutException / except Exception: return False
SendMessageExcept ==
    /\ pc = "sm_except"
    /\ ret' = FALSE
    /\ pc' = "record"
    /\ UNCHANGED <<entry, fileState, fileLines, phone_numbers, i, phone_number,
                   results, driver, pending, exitStatus, trace, raised, sigint, initFailed>>

\* Faulty variant of RecordResult: a failed attempt is not recorded.
RecordResult_DropFailed ==
    /\ pc = "record"
    /\ results' = IF ret
                  THEN [results EXCEPT !.success = Append(@, phone_number)]
                  ELSE results
    /\ pc' = IF i < Len(phone_numbers) THEN "delay" ELSE "loop"
    /\ UNCHANGED <<entry, fileState, fileLines, phone_numbers, i, phone_number, ret,
                   driver, pending, exitStatus, trace, raised, sigint, initFailed>>

\* Faulty variant of RecordResult: the else is missing, so a success is also
\* appended to the failed list.
RecordResult_NoElse ==
    /\ pc = "record"
    /\ results' = IF ret
                  THEN [success |-> Append(results.success, phone_number),
                        failed |-> Append(results.failed, phone_number)]
                  ELSE [results EXCEPT !.failed = Append(@, phone_number)]
    /\ pc' = IF i < Len(phone_numbers) THEN "delay" ELSE "loop"
    /\ UNCHANGED <<entry, fileState, fileLines, phone_numbers, i, phone_number, ret,
                   driver, pending, exitStatus, trace, raised, sigint, initFailed>>

\* Faulty variant of RecordResult: a failed attempt is retried.
RecordResult_Retry ==
    /\ pc = "record"
    /\ results' = IF ret
                  THEN [results EXCEPT !.success = Append(@, phone_number)]
                  ELSE [results EXCEPT !.failed = Append(@, phone_number)]
    /\ i' = IF ret THEN i ELSE i - 1
    /\ pc' = IF i < Len(phone_numbers) THEN "delay" ELSE "loop"
    /\ UNCHANGED <<entry, fileState, fileLines, phone_numbers, phone_number, ret,
                   driver, pending, exitStatus, trace, raised, sigint, initFailed>>

\* append to results; if i < total: the delay follows
RecordResult ==
    /\ pc = "record"
    /\ results' = IF ret
                  THEN [results EXCEPT !.success = Append(@, phone_number)]
                  ELSE [results EXCEPT !.failed = Append(@, phone_number)]
    /\ pc' = IF i < Len(phone_numbers) THEN "delay" ELSE "loop"
    /\ UNCHANGED <<entry, fileState, fileLines, phone_numbers, i, phone_number, ret,
                   driver, pending, exitStatus, trace, raised, sigint, initFailed>>

\* time.sleep(random.uniform(delay_min, delay_max))
Delay ==
    /\ pc = "delay"
    /\ trace' = Log("delay", <<>>)
    /\ \E outcome \in {"slept", "interrupt"} :
         /\ pc' = IF outcome = "slept" THEN "loop" ELSE Propagate
         /\ sigint' = IF outcome = "interrupt" THEN MarkInterrupt ELSE sigint
    /\ UNCHANGED <<entry, fileState, fileLines, phone_numbers, i, phone_number, ret,
                   results, driver, pending, exitStatus, raised, initFailed>>

\* the summary prints; send_bulk_messages returns
PrintSummary ==
    /\ pc = "summary"
    /\ trace' = Log("summary", <<>>)
    /\ pc' = IF entry = "main" THEN "finally" ELSE "returned"
    /\ UNCHANGED <<entry, fileState, fileLines, phone_numbers, i, phone_number, ret,
                   results, driver, pending, exitStatus, raised, sigint, initFailed>>

Next ==
    \/ MainCheckExists
    \/ ReadPhoneNumbers
    \/ MainCheckEmpty
    \/ SetupDriver
    \/ OpenWhatsAppWeb
    \/ MainLoginFailed
    \/ MainKeyboardInterrupt
    \/ MainException
    \/ MainFinally
    \/ SendBulkStart
    \/ LoopSkipBlank
    \/ LoopAttempt
    \/ LoopExit
    \/ SearchContact
    \/ SearchContactClear
    \/ SendMessageNotFound
    \/ SendMessageFindBox
    \/ SendMessageType
    \/ SendMessageExcept
    \/ RecordResult
    \/ Delay
    \/ PrintSummary

Spec == Init /\ [][Next]_vars

(* ------------------------------ claims --------------------------------- *)

\* the non-blank entries of the list, trimmed
NonBlank == StripNonBlank(phone_numbers)

\* the for loop of send_bulk_messages has run through the whole list
RunCompleted == pc = "summary" \/ Count("summary") > 0

\* main caught a KeyboardInterrupt, or one reached the caller of send_bulk_messages
Aborted == pc \in {"main_kbint", "propagated"} \/ Count("interrupted") > 0

HasBlank == \E k \in 1..Len(phone_numbers) : Strip(phone_numbers[k]) = <<>>

IsPrefix(s, t) == Len(s) <= Len(t) /\ \A k \in 1..Len(s) : s[k] = t[k]

\* the send_message and delay events, in order
Paced == LET T(e) == e.op \in {"send_message", "delay"} IN SelectSeq(trace, T)

\* C1: once the run completes, len(success) + len(failed) is the number of
\* non-blank entries, and every non-blank entry is recorded exactly once
\* across the two lists (as many times as it occurs in the input).
C1_EveryRecipientRecordedOnce ==
    RunCompleted =>
        /\ Len(results.success) + Len(results.failed) = Len(NonBlank)
        /\ \A r \in Range(NonBlank) \cup Range(Recorded) :
               Occurs(Recorded, r) = Occurs(NonBlank, r)

C1_Witness ==
    /\ RunCompleted
    /\ HasBlank
    /\ results.success # <<>>
    /\ results.failed # <<>>

\* C2 (as stated): no recipient is ever in both results['success'] and
\* results['failed'], duplicates in the input included.
C2_AlwaysDisjoint ==
    Range(results.success) \cap Range(results.failed) = {}

\* C2 (amended): a recipient is in both lists only if it occurs more than
\* once in the trimmed input; without repeated recipients the lists are
\* disjoint.
C2_DisjointUnlessRepeated ==
    /\ \A r \in Range(results.success) \cap Range(results.failed) :
           Occurs(NonBlank, r) >= 2
    /\ (\A r \in Range(NonBlank) : Occurs(NonBlank, r) = 1) =>
           Range(results.success) \cap Range(results.failed) = {}

C2_Witness ==
    /\ RunCompleted
    /\ Range(results.success) \cap Range(results.failed) # {}

\* C3: the send_message invocations are the non-blank entries, trimmed, in
\* input order, each once and none retried; an entry is attempted only when
\* every earlier one has its outcome recorded.
C3_AttemptsInInputOrder ==
    /\ IsPrefix(Calls, NonBlank)
    /\ RunCompleted => Calls = NonBlank
    /\ pc \in {"search", "search_clear", "not_found", "msgbox", "typing", "sm_except", "record"} =>
           Len(Recorded) = Len(Calls) - 1
    /\ pc \in {"loop", "delay", "summary", "returned"} => Len(Recorded) = Len(Calls)

C3_Witness ==
    /\ RunCompleted
    /\ HasBlank
    /\ Len(Calls) >= 2
    /\ results.failed # <<>>
    /\ results.failed[1] = Calls[1]

\* C4: with n non-blank entries exactly n-1 delays occur, one between each
\* pair of consecutive attempts and none after the last attempt, wherever
\* the blank entries are.
C4_DelaysBetweenAttemptsOnly ==
    RunCompleted =>
        /\ Len(Paced) = (IF NonBlank = <<>> THEN 0 ELSE 2 * Len(NonBlank) - 1)
        /\ \A k \in 1..Len(Paced) :
               Paced[k].op = (IF k % 2 = 1 THEN "send_message" ELSE "delay")

\* C5: a recipient whose delivery raises an exception is recorded as failed,
\* the exception does not leave the loop, and the later recipients are
\* still attempted.
C5_DeliveryExceptionContained ==
    /\ pc \notin {"not_found", "sm_except", "record"} =>
           \A r \in Range(raised) : Occurs(raised, r) <= Occurs(results.failed, r)
    /\ pc = "main_except" => Calls = <<>>
    /\ pc = "propagated" => sigint.seen
    /\ (pc \in {"exited", "returned"} /\ raised # <<>> /\ ~Aborted) =>
           RunCompleted /\ Calls = NonBlank

C5_Witness ==
    /\ RunCompleted
    /\ Len(Calls) >= 2
    /\ raised # <<>>
    /\ raised[1] = Calls[1]
    /\ results.failed # <<>>
    /\ results.failed[1] = Calls[1]

\* C6: whenever channel initialization fails (setup_driver raises, or
\* open_whatsapp_web times out or raises), the process exits nonzero and
\* send_message is never invoked.
C6_InitFailureExitsNonzero ==
    initFailed =>
        /\ Calls = <<>>
        /\ pc = "exited" => exitStatus # 0

\* C7: a recipient file that is missing, unreadable or without a non-blank
\* line makes the process exit nonzero before any channel work: no
\* setup_driver, no open_whatsapp_web, no send_message.
C7_BadInputExitsBeforeChannel ==
    (entry = "main" /\ (fileState \in {"missing", "unreadable"} \/ StripNonBlank(fileLines) = <<>>)) =>
        /\ trace = <<>>
        /\ pc \in {"main_start", "read", "check_empty", "exited"}
        /\ pc = "exited" => exitStatus = 1

C7_Witness ==
    /\ pc = "exited"
    /\ fileState = "ok"
    /\ Len(fileLines) >= 2
    /\ StripNonBlank(fileLines) = <<>>
    /\ exitStatus = 1

\* C8: a KeyboardInterrupt raised anywhere in the dispatch loop, inside
\* search_contact and send_message included, stops the run: no later
\* send_message, the results as they were, and cleanup before exit.
C8_InterruptStopsSends ==
    sigint.seen =>
        /\ results = sigint.results
        /\ Len(Calls) = sigint.calls
        /\ (pc = "exited" /\ driver # "None") => Count("quit") >= 1

\* C9 (as stated): after an interrupt during the dispatch loop the summary
\* is still printed before the process exits.
C9_SummaryOnInterrupt ==
    (pc = "exited" /\ sigint.seen) => Count("summary") > 0

\* C9 (amended): when an interrupt ends the dispatch loop, no summary is
\* printed, only the interruption notice, and cleanup still runs before
\* exit; the summary is printed only when the loop ran through every entry.
C9_NoSummaryOnInterrupt ==
    /\ Aborted => Count("summary") = 0
    /\ (pc = "exited" /\ Count("interrupted") > 0 /\ driver # "None") => Count("quit") >= 1
    /\ Count("summary") > 0 =>
           /\ i = Len(phone_numbers)
           /\ Len(Recorded) = Len(NonBlank)

C9_Witness ==
    /\ pc = "exited"
    /\ sigint.seen
    /\ Count("interrupted") = 1
    /\ results.success # <<>>
    /\ Count("summary") = 0
    /\ Count("quit") = 1

\* C10: on every exit path of main after the driver was created,
\* driver.quit() is invoked exactly once.
C10_QuitExactlyOnce ==
    (pc = "exited" /\ driver # "None") => Count("quit") = 1

====
